---- MODULE Spec2Model ----
(***************************************************************************)
(* jGrants MCP server (src/jgrants_mcp_server/core.py).                    *)
(*                                                                         *)
(* The tool handlers search_subsidies, get_subsidy_overview,               *)
(* get_subsidy_detail and get_file_content as actions over the state they  *)
(* touch: the upstream API's answers and the clock (the environment, fixed *)
(* in Init), the count of gateway calls, the local file store, and the     *)
(* last call with its return value.                                        *)
(*                                                                         *)
(* Python strings are sequences of one-character strings; Python values    *)
(* whose type matters are tagged records.                                  *)
(***************************************************************************)
EXTENDS Integers, Sequences, FiniteSets, TLC

VARIABLES
    now,          \* datetime.now(): the clock, in ticks of half a day
    searchResp,   \* what GET /subsidies does when asked (gateway outcome)
    detailResp,   \* what GET /subsidies/id/{id} does when asked
    converters,   \* what MarkItDown / pdfplumber do on the stored file
    files,        \* the file store: path -> bytes
    dirs,         \* the directories that exist
    netCalls,     \* number of client.get calls made so far
    debug_files,  \* whether JGRANTS_DEBUG_FILES turns the attachment log on
    _HTTP_CLIENT, \* the shared client: 0 for None, else the number of the instance
    clients_made, \* number of httpx.AsyncClient instances constructed so far
    co,           \* the coroutines inside _get_json: [pc, client, ret] each
    last          \* the last tool call: [op, args, ret]

vars ==
    <<now, searchResp, detailResp, converters, files, dirs, netCalls, debug_files,
      _HTTP_CLIENT, clients_made, co, last>>

----------------------------------------------------------------------------
(* Bounds of the model.                                                    *)

\* most gateway calls in one behaviour
MaxCalls == 2

\* most records in one search result list
MaxRecords == 2

----------------------------------------------------------------------------
(* Python strings.                                                         *)

Rep(n, c) == [i \in 1..n |-> c]

IsSpace(c) == c = " "

RECURSIVE LStrip(_)
LStrip(s) == IF s # <<>> /\ IsSpace(Head(s)) THEN LStrip(Tail(s)) ELSE s

RECURSIVE RStrip(_)
RStrip(s) ==
    IF s # <<>> /\ IsSpace(s[Len(s)]) THEN RStrip(SubSeq(s, 1, Len(s) - 1)) ELSE s

\* str.strip()
Strip(s) == RStrip(LStrip(s))

\* str.upper(), on the letters the model uses
UpperChar(c) ==
    CASE c = "a" -> "A" [] c = "s" -> "S" [] c = "c" -> "C"
      [] c = "d" -> "D" [] c = "e" -> "E" [] OTHER -> c

Upper(s) == [i \in 1..Len(s) |-> UpperChar(s[i])]

\* str.lower(), on the letters the model uses
LowerChar(c) ==
    CASE c = "C" -> "c" [] c = "S" -> "s" [] c = "V" -> "v"
      [] c = "P" -> "p" [] c = "D" -> "d" [] c = "F" -> "f" [] OTHER -> c

Lower(s) == [i \in 1..Len(s) |-> LowerChar(s[i])]

\* str.startswith
StartsWith(s, p) == Len(p) <= Len(s) /\ SubSeq(s, 1, Len(p)) = p

\* Python values whose type matters: a str, an int, or None
PyStr(s) == [ty |-> "str", s |-> s, n |-> 0]
PyInt(n) == [ty |-> "int", s |-> <<>>, n |-> n]
PyNone == [ty |-> "none", s |-> <<>>, n |-> 0]

\* truthiness of such a value
Truthy(v) ==
    CASE v.ty = "str" -> v.s # <<>>
      [] v.ty = "int" -> v.n # 0
      [] OTHER -> FALSE

Digits == <<"0", "1", "2", "3", "4", "5", "6", "7", "8", "9">>

\* str(n) for an int n >= 0
RECURSIVE StrOfInt(_)
StrOfInt(n) ==
    IF n < 10 THEN <<Digits[n + 1]>>
    ELSE StrOfInt(n \div 10) \o <<Digits[(n % 10) + 1]>>

\* str(v)
StrOf(v) ==
    CASE v.ty = "str" -> v.s
      [] v.ty = "int" -> StrOfInt(v.n)
      [] OTHER -> <<"N", "o", "n", "e">>

----------------------------------------------------------------------------
(* JSON values the upstream can send, and the values the tools return.     *)

\* the value under the "result" key: a list (its items), or another JSON
\* type (n: its len() where it has one)
JList(items) == [t |-> "list", items |-> items, n |-> Len(items)]
JOther(t, n) == [t |-> t, items |-> <<>>, n |-> n]

\* len(v): defined for list, dict and str only
HasLen(v) == v.t \in {"list", "dict", "str"}

\* a response body. hasError / hasResult: the outcome of `"error" in data`
\* and `"result" in data` (key lookup on a dict, element lookup on a list,
\* substring test on a str)
JBody(t, hasError, error, hasResult, result) ==
    [t |-> t, hasError |-> hasError, error |-> error,
     hasResult |-> hasResult, result |-> result]

\* {"error": msg}
ErrBody(msg) == JBody("dict", TRUE, PyStr(msg), FALSE, JOther("null", 0))

\* what a tool call does: returns a dict {"error": ...} or another value
\* passed through, returns a tool-specific dict, or raises
Data(body) == [tag |-> "data", data |-> body]
Raise(exc) == [tag |-> "raise", exc |-> exc]
IsErrorRet(r, msg) == r.tag = "data" /\ r.data = ErrBody(msg)

----------------------------------------------------------------------------
(* HTTP gateway: _get_json.                                                *)

\* the gateway's error texts
MsgTimeout == <<"request timed out: ">>
MsgConnect == <<"connection to API server failed: ">>
\* f"HTTPエラー: {status}", status an int
MsgHttp(code) == <<"HTTP error: ">> \o StrOfInt(code)
MsgOther == <<"an error occurred: ">>

\* what client.get / raise_for_status / resp.json() do
OkOutcome(body) == [kind |-> "ok", body |-> body, code |-> 200]
FailOutcome(kind, code) ==
    [kind |-> kind, body |-> JBody("null", FALSE, PyNone, FALSE, JOther("null", 0)),
     code |-> code]

\* _get_http_client with the test of line 36 left out: every call makes a
\* client
GetHttpClientUnguarded ==
    [client |-> clients_made + 1, made |-> clients_made + 1]

\* _get_http_client: the client returned, and the number of clients made
\* afterwards. The function has no await, so no other coroutine runs between
\* its test and its assignment
_get_http_client ==
    IF _HTTP_CLIENT = 0
    THEN [client |-> clients_made + 1, made |-> clients_made + 1]
    ELSE [client |-> _HTTP_CLIENT, made |-> clients_made]

\* lines 53-54 inside a tool call that runs to its end: whether the tool
\* reaches _get_json
CallGateway(called) ==
    /\ _HTTP_CLIENT' = IF called THEN _get_http_client.client ELSE _HTTP_CLIENT
    /\ clients_made' = IF called THEN _get_http_client.made ELSE clients_made
    /\ netCalls' = IF called THEN netCalls + 1 ELSE netCalls
    /\ UNCHANGED co

\* _get_json: the parsed body, or {"error": reason} for every failure
GetJson(outcome) ==
    CASE outcome.kind = "ok" -> outcome.body
      [] outcome.kind = "timeout" -> ErrBody(MsgTimeout)
      [] outcome.kind = "connect" -> ErrBody(MsgConnect)
      [] outcome.kind = "status" -> ErrBody(MsgHttp(outcome.code))
      [] OTHER -> ErrBody(MsgOther)

----------------------------------------------------------------------------
(* Search adapter: _search_subsidies_internal and search_subsidies.        *)

MinKeywordLen == 2
MaxKeywordLen == 255

DefaultKeyword == <<"jigyo">>
allowed_sorts ==
    {<<"created_date">>, <<"acceptance_start_datetime">>, <<"acceptance_end_datetime">>}
AllowedOrders == {<<"A", "S", "C">>, <<"D", "E", "S", "C">>}

OptionalKeys ==
    {"use_purpose", "industry", "target_number_of_employees", "target_area_search"}

\* the query dict: the four required keys, and each optional key whose
\* argument is truthy. opt: key -> PyStr / PyNone
BuildParams(keyword, opt, sort, order, acceptance) ==
    LET given == {k \in OptionalKeys : Truthy(opt[k])}
    IN  [k \in {"keyword", "sort", "order", "acceptance"} \cup given |->
            CASE k = "keyword" -> keyword
              [] k = "sort" -> sort
              [] k = "order" -> order
              [] k = "acceptance" -> StrOfInt(acceptance)
              [] OTHER -> opt[k].s]

NoConditions == [k \in {} |-> <<>>]

SearchShape(total, subsidies, hasConditions, conditions) ==
    [tag |-> "search", total_count |-> total, subsidies |-> subsidies,
     hasConditions |-> hasConditions, search_conditions |-> conditions]

\* the reshaping of the gateway's answer (lines 100-111)
ReshapeSearch(data, params) ==
    IF data.t \in {"null", "int"} THEN Raise("TypeError")   \* "error" in data
    ELSE IF data.hasError THEN Data(data)
    ELSE IF data.hasResult THEN
        IF data.t # "dict" THEN Raise("TypeError")          \* data["result"]
        ELSE IF ~HasLen(data.result) THEN Raise("TypeError") \* len(...)
        ELSE SearchShape(data.result.n, data.result, TRUE, params)
    ELSE SearchShape(0, JList(<<>>), FALSE, NoConditions)

_search_subsidies_internal(keyword, opt, sort, order, acceptance, outcome) ==
    ReshapeSearch(GetJson(outcome), BuildParams(keyword, opt, sort, order, acceptance))

MsgKeyword == <<"keyword must be a non-empty string of 2-255 characters">>
MsgAcceptance == <<"acceptance must be 0 or 1">>
MsgSort == <<"sort must be one of the three fields">>
MsgOrder == <<"order must be ASC or DESC">>

\* SearchValidation with the keyword measured before trimming
SearchValidationUntrimmed(keyword, sort, order, acceptance) ==
    IF \/ keyword.ty # "str"
       \/ keyword.s = <<>>
       \/ ~(MinKeywordLen <= Len(keyword.s) /\ Len(keyword.s) <= MaxKeywordLen)
    THEN MsgKeyword
    ELSE IF acceptance \notin {0, 1} THEN MsgAcceptance
    ELSE IF sort \notin allowed_sorts THEN MsgSort
    ELSE IF Upper(StrOf(order)) \notin AllowedOrders THEN MsgOrder
    ELSE <<>>

\* the validation of search_subsidies (lines 182-190): the error text, or
\* <<>> when every criterion is valid
SearchValidation(keyword, sort, order, acceptance) ==
    IF \/ keyword.ty # "str"
       \/ Strip(keyword.s) = <<>>
       \/ ~(MinKeywordLen <= Len(Strip(keyword.s)) /\ Len(Strip(keyword.s)) <= MaxKeywordLen)
    THEN MsgKeyword
    ELSE IF acceptance \notin {0, 1} THEN MsgAcceptance
    ELSE IF sort \notin allowed_sorts THEN MsgSort
    ELSE IF Upper(StrOf(order)) \notin AllowedOrders THEN MsgOrder
    ELSE <<>>

\* search_subsidies
search_subsidies(keyword, opt, sort, order, acceptance) ==
    LET bad == SearchValidation(keyword, sort, order, acceptance)
        calls == bad = <<>>
    IN  /\ calls => netCalls < MaxCalls
        /\ CallGateway(calls)
        /\ last' = [op |-> "search_subsidies",
                    args |-> [keyword |-> keyword, sort |-> sort, order |-> order,
                              acceptance |-> acceptance, opt |-> opt],
                    ret |-> IF calls
                            THEN _search_subsidies_internal(
                                     keyword.s, opt, sort, Upper(StrOf(order)),
                                     acceptance, searchResp)
                            ELSE Data(ErrBody(bad))]
        /\ UNCHANGED <<now, searchResp, detailResp, converters, files, dirs, debug_files>>

----------------------------------------------------------------------------
(* Timestamps and amounts of a subsidy record.                             *)

\* ticks of the clock in one day (timedelta.days counts whole days)
TicksPerDay == 2

\* the acceptance_end_datetime field. k: "absent" (no key / None), "empty"
\* (""), "nonstr" (a truthy value that is no str), "bad" (text that is no
\* ISO-8601 timestamp), "naive" (timestamp text without offset; t is its
\* wall-clock reading), "z" / "offset" (timestamp text ending in Z / in a
\* numeric offset; t is the instant)
EndField(k, t) == [k |-> k, t |-> t]

EndTruthy(e) == e.k \notin {"absent", "empty"}

\* datetime.fromisoformat(raw.replace("Z", "+00:00")): "raise", or a
\* datetime that is naive or aware
ParseEnd(e) ==
    CASE e.k \in {"z", "offset"} -> [ok |-> TRUE, aware |-> TRUE, t |-> e.t]
      [] e.k = "naive" -> [ok |-> TRUE, aware |-> FALSE, t |-> e.t]
      [] OTHER -> [ok |-> FALSE, aware |-> FALSE, t |-> 0]

\* timedelta.days: the floor of the difference in whole days
DaysBetween(t, clock) == (t - clock) \div TicksPerDay

\* the subsidy_max_limit field. k: "absent" (no key / None), "empty" (""),
\* "int0" (the number 0), "bad" (text float() rejects), "nan" (text
\* float() reads as NaN), "num" (a number or numeric text; v its value)
AmountField(k, v) == [k |-> k, v |-> v]

AmountTruthy(a) == a.k \notin {"absent", "empty", "int0"}

----------------------------------------------------------------------------
(* Statistics engine: get_subsidy_overview.                                *)

ThisMonthDays == 30
NextMonthDays == 60
UrgentDays == 14
Limit1m == 1000000
Limit10m == 10000000
Limit100m == 100000000
HighAmount == 50000000

Bump(f, key) == [f EXCEPT ![key] = @ + 1]

EmptyStats(total, clock) ==
    [total_count |-> total,
     by_deadline_period |->
        [accepting |-> 0, this_month |-> 0, next_month |-> 0, after_next_month |-> 0],
     by_amount_range |->
        [under_1m |-> 0, under_10m |-> 0, under_100m |-> 0, over_100m |-> 0,
         unspecified |-> 0],
     urgent_deadlines |-> <<>>,
     high_amount_subsidies |-> <<>>,
     statistics_generated_at |-> clock]

\* lines 281-305: the deadline part of one loop iteration. skip: the
\* `continue` was taken
ClassifyDeadline(stats, subsidy, clock) ==
    LET end == ParseEnd(subsidy.end)
        days_left == DaysBetween(end.t, clock)
        bucket == IF days_left <= ThisMonthDays THEN "this_month"
                  ELSE IF days_left <= NextMonthDays THEN "next_month"
                  ELSE "after_next_month"
        counted == [stats EXCEPT !.by_deadline_period = Bump(@, bucket)]
    IN  IF ~EndTruthy(subsidy.end) THEN [skip |-> FALSE, stats |-> stats]
        ELSE IF ~end.ok \/ ~end.aware THEN [skip |-> FALSE, stats |-> stats]
        ELSE IF days_left < 0 THEN [skip |-> TRUE, stats |-> stats]
        ELSE [skip |-> FALSE,
              stats |->
                IF 0 <= days_left /\ days_left <= UrgentDays
                THEN [counted EXCEPT !.urgent_deadlines =
                        Append(@, [id |-> subsidy.id, title |-> subsidy.title,
                                   days_left |-> days_left])]
                ELSE counted]

\* lines 307-331: the amount part of one loop iteration
ClassifyAmount(stats, subsidy) ==
    LET max_limit == subsidy.amt
        amount == max_limit.v
        bucket == IF max_limit.k = "nan" THEN "over_100m"
                  ELSE IF amount <= Limit1m THEN "under_1m"
                  ELSE IF amount <= Limit10m THEN "under_10m"
                  ELSE IF amount <= Limit100m THEN "under_100m"
                  ELSE "over_100m"
        counted == [stats EXCEPT !.by_amount_range = Bump(@, bucket)]
    IN  IF ~AmountTruthy(max_limit) THEN
            [stats EXCEPT !.by_amount_range = Bump(@, "unspecified")]
        ELSE IF max_limit.k = "bad" THEN
            [stats EXCEPT !.by_amount_range = Bump(@, "unspecified")]
        ELSE IF max_limit.k # "nan" /\ amount >= HighAmount THEN
            [counted EXCEPT !.high_amount_subsidies =
                Append(@, [id |-> subsidy.id, title |-> subsidy.title,
                           max_amount |-> amount])]
        ELSE counted

\* one iteration of the loop of lines 279-331
ClassifyRecord(stats, subsidy, clock) ==
    LET d == ClassifyDeadline(stats, subsidy, clock)
    IN  IF d.skip THEN d.stats ELSE ClassifyAmount(d.stats, subsidy)

RECURSIVE ClassifyAll(_, _, _)
ClassifyAll(stats, subsidies, clock) ==
    IF subsidies = <<>> THEN stats
    ELSE ClassifyAll(ClassifyRecord(stats, Head(subsidies), clock), Tail(subsidies), clock)

\* f"{x:,.0f}" on the digits of a whole amount: a comma before every
\* group of three digits
Thousands(ds) ==
    LET n == Len(ds)
        Piece(i) == IF i > 1 /\ (n - i + 1) % 3 = 0 THEN <<",", ds[i]>> ELSE <<ds[i]>>
        Build[i \in 0..n] == IF i = 0 THEN <<>> ELSE Build[i - 1] \o Piece(i)
    IN  Build[n]

DeadlineKeys == <<"accepting", "this_month", "next_month", "after_next_month">>
AmountKeys == <<"under_1m", "under_10m", "under_100m", "over_100m", "unspecified">>

\* the table labels of lines 351-356 and 365-370
Label(key) == <<"label of ", key>>

\* HistogramRows leaving out the buckets that hold nothing
HistogramRowsNonZero(keys, counts) ==
    LET Filled(k) == counts[k] # 0
        kept == SelectSeq(keys, Filled)
    IN  [i \in 1..Len(kept) |-> <<Label(kept[i]), StrOfInt(counts[kept[i]])>>]

HistogramRows(keys, counts) ==
    [i \in 1..Len(keys) |-> <<Label(keys[i]), StrOfInt(counts[keys[i]])>>]

UrgentRows(items) ==
    [i \in 1..Len(items) |->
        <<items[i].id, items[i].title, StrOfInt(items[i].days_left)>>]

HighAmountRows(items) ==
    [i \in 1..Len(items) |->
        <<items[i].id, items[i].title, Thousands(StrOfInt(items[i].max_amount))>>]

\* _convert_statistics_to_csv. A table is the sequence of the rows written
\* to it, the header row first; tables: the table keys present in the dict
_convert_statistics_to_csv(stats) ==
    LET present ==
            {"deadline_statistics", "amount_statistics"}
            \cup (IF stats.urgent_deadlines # <<>> THEN {"urgent_deadlines"} ELSE {})
            \cup (IF stats.high_amount_subsidies # <<>>
                  THEN {"high_amount_subsidies"} ELSE {})
    IN  [tag |-> "csv",
         tables |->
            [k \in present |->
                CASE k = "deadline_statistics" ->
                        <<<<<<"period">>, <<"count">>>>>>
                        \o HistogramRows(DeadlineKeys, stats.by_deadline_period)
                  [] k = "amount_statistics" ->
                        <<<<<<"amount range">>, <<"count">>>>>>
                        \o HistogramRows(AmountKeys, stats.by_amount_range)
                  [] k = "urgent_deadlines" ->
                        <<<<<<"id">>, <<"name">>, <<"days left">>>>>>
                        \o UrgentRows(stats.urgent_deadlines)
                  [] OTHER ->
                        <<<<<<"id">>, <<"name">>, <<"max amount">>>>>>
                        \o HighAmountRows(stats.high_amount_subsidies)],
         total_count |-> stats.total_count,
         statistics_generated_at |-> stats.statistics_generated_at,
         format |-> "csv"]

NoOpt == [k \in OptionalKeys |-> PyNone]

\* lines 256-336, on what the search returned
OverviewOf(subsidies, output_format, clock) ==
    LET list == subsidies.subsidies
        stats == ClassifyAll(EmptyStats(subsidies.total_count, clock), list.items, clock)
    IN  IF subsidies.tag # "search" THEN subsidies       \* raised, or "error" in it
        ELSE IF list.t # "list" /\ list.n > 0
        THEN Raise("AttributeError")                     \* subsidy.get on a key / char
        ELSE IF output_format.ty # "str" THEN Raise("AttributeError")
        ELSE IF Lower(output_format.s) = <<"c", "s", "v">>
        THEN _convert_statistics_to_csv(stats)
        ELSE [tag |-> "stats", stats |-> stats]

\* get_subsidy_overview
get_subsidy_overview(output_format) ==
    /\ netCalls < MaxCalls
    /\ CallGateway(TRUE)
    /\ last' = [op |-> "get_subsidy_overview",
                args |-> [output_format |-> output_format],
                ret |-> OverviewOf(
                            _search_subsidies_internal(
                                DefaultKeyword, NoOpt, <<"acceptance_end_datetime">>,
                                <<"A", "S", "C">>, 1, searchResp),
                            output_format, now)]
    /\ UNCHANGED <<now, searchResp, detailResp, converters, files, dirs, debug_files>>

----------------------------------------------------------------------------
(* base64: bytes are 0..255, text is a sequence of characters.             *)

B64Alphabet ==
    <<"A", "B", "C", "D", "E", "F", "G", "H", "I", "J", "K", "L", "M", "N", "O", "P",
      "Q", "R", "S", "T", "U", "V", "W", "X", "Y", "Z", "a", "b", "c", "d", "e", "f",
      "g", "h", "i", "j", "k", "l", "m", "n", "o", "p", "q", "r", "s", "t", "u", "v",
      "w", "x", "y", "z", "0", "1", "2", "3", "4", "5", "6", "7", "8", "9", "+", "/">>

IsB64(c) == \E i \in 1..64 : B64Alphabet[i] = c

B64Value(c) == (CHOOSE i \in 1..64 : B64Alphabet[i] = c) - 1

B64Char(v) == B64Alphabet[v + 1]

\* binascii.a2b_base64 without strict mode, from character i on: characters
\* outside the alphabet are skipped, a completed pad sequence ends the input,
\* an incomplete last quad is an error (binascii.Error)
RECURSIVE A2B(_, _, _, _, _, _)
A2B(s, i, quad_pos, leftchar, pads, out) ==
    IF i > Len(s) THEN [ok |-> quad_pos = 0, bytes |-> out]
    ELSE IF s[i] = "=" THEN
        IF quad_pos >= 2 /\ quad_pos + pads + 1 >= 4 THEN [ok |-> TRUE, bytes |-> out]
        ELSE A2B(s, i + 1, quad_pos, leftchar,
                 IF quad_pos >= 2 THEN pads + 1 ELSE pads, out)
    ELSE IF ~IsB64(s[i]) THEN A2B(s, i + 1, quad_pos, leftchar, pads, out)
    ELSE LET v == B64Value(s[i])
         IN  CASE quad_pos = 0 -> A2B(s, i + 1, 1, v, 0, out)
               [] quad_pos = 1 ->
                    A2B(s, i + 1, 2, v % 16, 0, Append(out, leftchar * 4 + v \div 16))
               [] quad_pos = 2 ->
                    A2B(s, i + 1, 3, v % 4, 0, Append(out, leftchar * 16 + v \div 4))
               [] OTHER ->
                    A2B(s, i + 1, 0, 0, 0, Append(out, leftchar * 64 + v))

\* base64.b64decode(s)
b64decode(s) == A2B(s, 1, 0, 0, 0, <<>>)

\* base64.b64encode(b): three bytes to four characters, the last group
\* padded with "="
RECURSIVE b64encode(_)
b64encode(b) ==
    IF b = <<>> THEN <<>>
    ELSE IF Len(b) = 1 THEN
        <<B64Char(b[1] \div 4), B64Char((b[1] % 4) * 16), "=", "=">>
    ELSE IF Len(b) = 2 THEN
        <<B64Char(b[1] \div 4), B64Char((b[1] % 4) * 16 + b[2] \div 16),
          B64Char((b[2] % 16) * 4), "=">>
    ELSE <<B64Char(b[1] \div 4), B64Char((b[1] % 4) * 16 + b[2] \div 16),
           B64Char((b[2] % 16) * 4 + b[3] \div 64), B64Char(b[3] % 64)>>
         \o b64encode(SubSeq(b, 4, Len(b)))

----------------------------------------------------------------------------
(* The file store. A file or directory name is a sequence of characters    *)
(* (a run of harmless characters such as "report" or ".pdf" stands as one  *)
(* element); a path is a sequence of names, counted from the working       *)
(* directory.                                                              *)

DotDot == <<".", ".">>
Dot == <<".">>
RootName == <<"/">>

FILES_DIR == <<<<"tmp">>>>

\* str.split("/") as pathlib reads a path string
RECURSIVE SplitPath(_, _, _)
SplitPath(s, i, cur) ==
    IF i > Len(s) THEN (IF cur = <<>> THEN <<>> ELSE <<cur>>)
    ELSE IF s[i] = "/" THEN
        (IF cur = <<>> THEN <<>> ELSE <<cur>>) \o SplitPath(s, i + 1, <<>>)
    ELSE SplitPath(s, i + 1, Append(cur, s[i]))

\* base / s of pathlib: an absolute s replaces base; empty and "." segments
\* are dropped, ".." segments are kept
PathJoin(base, s) ==
    LET segs == SelectSeq(SplitPath(s, 1, <<>>), LAMBDA c : c # Dot)
    IN  IF s # <<>> /\ s[1] = "/" THEN <<RootName>> \o segs ELSE base \o segs

\* the directory the operating system reaches by walking `path` from the
\* working directory: ".." steps to the parent, and every directory walked
\* through must exist
RECURSIVE Walk(_, _, _, _)
Walk(path, i, at, dirset) ==
    IF i > Len(path) THEN [ok |-> TRUE, p |-> at]
    ELSE IF at \notin dirset THEN [ok |-> FALSE, p |-> at]
    ELSE IF path[i] = RootName THEN Walk(path, i + 1, <<RootName>>, dirset)
    ELSE IF path[i] = DotDot THEN
        Walk(path, i + 1,
             IF at = <<RootName>> THEN at
             ELSE IF at = <<>> \/ at[Len(at)] = DotDot THEN Append(at, DotDot)
             ELSE SubSeq(at, 1, Len(at) - 1),
             dirset)
    ELSE Walk(path, i + 1, Append(at, path[i]), dirset)

Resolve(path, dirset) == Walk(path, 1, <<>>, dirset)

\* Path.exists()
Exists(path, fileset, dirset) ==
    LET r == Resolve(path, dirset)
    IN  r.ok /\ (r.p \in dirset \/ r.p \in DOMAIN fileset)

\* Path.mkdir(exist_ok=True): the directories afterwards, or an OSError
Mkdir(path, fileset, dirset) ==
    LET r == Resolve(path, dirset)
    IN  IF ~r.ok THEN [ok |-> FALSE, dirs |-> dirset]
        ELSE IF r.p \in dirset THEN [ok |-> TRUE, dirs |-> dirset]
        ELSE IF r.p \in DOMAIN fileset THEN [ok |-> FALSE, dirs |-> dirset]
        ELSE [ok |-> TRUE, dirs |-> dirset \cup {r.p}]

\* open(path, "wb") and write: the files afterwards, or an OSError
WriteFile(path, content, fileset, dirset) ==
    LET r == Resolve(path, dirset)
    IN  IF ~r.ok \/ r.p \in dirset THEN [ok |-> FALSE, files |-> fileset]
        ELSE [ok |-> TRUE,
              files |-> [q \in DOMAIN fileset \cup {r.p} |->
                            IF q = r.p THEN content ELSE fileset[q]]]

\* open(path, "rb").read(): the bytes, or an OSError
ReadFile(path, fileset, dirset) ==
    LET r == Resolve(path, dirset)
    IN  IF r.ok /\ r.p \in DOMAIN fileset THEN [ok |-> TRUE, bytes |-> fileset[r.p]]
        ELSE [ok |-> FALSE, bytes |-> <<>>]

----------------------------------------------------------------------------
(* Attachment persister: the loop of lines 543-613.                        *)

Categories == <<"application_guidelines", "outline_of_grant", "application_form">>

file_type_names(file_type) ==
    CASE file_type = "application_guidelines" -> "guidelines"
      [] file_type = "outline_of_grant" -> "outline"
      [] OTHER -> "form"

DangerousChars == {"<", ">", ":", "\"", "|", "?", "*", "\\", "/"}

\* f"{base_name}_{idx+1}.pdf", idx counted from 0
FallbackName(base_name, idx) == <<base_name, "_">> \o StrOfInt(idx + 1) \o <<".pdf">>

\* lines 572-576: dangerous characters, then spaces, become "_"
ReplaceUnsafe(file_name) ==
    [i \in 1..Len(file_name) |->
        IF file_name[i] \in DangerousChars \/ file_name[i] = " "
        THEN "_" ELSE file_name[i]]

\* SafeFileName with lines 576 and 579-580 exchanged: the fallback is
\* decided before the spaces are replaced
SafeFileNameFallbackFirst(file_name, base_name, idx) ==
    LET substituted == [i \in 1..Len(file_name) |->
                          IF file_name[i] \in DangerousChars THEN "_"
                          ELSE file_name[i]]
        kept == IF substituted = <<>> \/ substituted = <<"_">>
                THEN FallbackName(base_name, idx)
                ELSE substituted
    IN  [i \in 1..Len(kept) |-> IF kept[i] = " " THEN "_" ELSE kept[i]]

\* lines 572-580
SafeFileName(file_name, base_name, idx) ==
    LET safe_file_name == ReplaceUnsafe(file_name)
    IN  IF safe_file_name = <<>> \/ safe_file_name = <<"_">>
        THEN FallbackName(base_name, idx)
        ELSE safe_file_name

SavedEntry(safe_file_name, file_name, size, subsidy_id) ==
    [ok |-> TRUE, name |-> safe_file_name, original_name |-> file_name,
     size |-> size, error |-> <<>>,
     mcp_access |-> [subsidy_id |-> subsidy_id, filename |-> safe_file_name]]

FailedEntry(file_name, reason) ==
    [ok |-> FALSE, name |-> file_name, original_name |-> file_name,
     size |-> 0, error |-> <<"save failed (">> \o file_name \o <<"): ", reason>>,
     mcp_access |-> [subsidy_id |-> <<>>, filename |-> <<>>]]

\* SaveItem without the guard of line 560: an empty payload reaches the
\* validation of line 563 and is recorded as a failure
SaveItemNoSkip(st, item, idx, base_name, subsidy_id, subsidy_dir, dirset, debug) ==
    LET file_name == IF Truthy(item.name) THEN item.name.s
                     ELSE FallbackName(base_name, idx)
        file_base64 == item.data
        Fail(reason) ==
            [files |-> st.files, out |-> Append(st.out, FailedEntry(file_name, reason)),
             raised |-> FALSE]
        safe_file_name == SafeFileName(file_name, base_name, idx)
        decoded == b64decode(Strip(file_base64.s))
        written == WriteFile(Append(subsidy_dir, safe_file_name), decoded.bytes,
                             st.files, dirset)
    IN  IF ~item.isDict THEN st
        ELSE IF debug /\ Truthy(file_base64) /\ file_base64.ty # "str"
        THEN [st EXCEPT !.raised = TRUE]
        ELSE IF file_base64.ty # "str" \/ Strip(file_base64.s) = <<>>
        THEN Fail("invalid base64 data")
        ELSE IF ~decoded.ok THEN Fail("binascii.Error")
        ELSE IF decoded.bytes = <<>> THEN Fail("decoded file is empty")
        ELSE IF ~written.ok THEN Fail("OSError")
        ELSE [files |-> written.files,
              out |-> Append(st.out,
                        SavedEntry(safe_file_name, file_name, Len(decoded.bytes),
                                   subsidy_id)),
              raised |-> FALSE]

\* one iteration of the loop of line 548. st: the files and the entries of
\* the category so far, and whether an exception left the loop; item:
\* [isDict, name, data], name and data a PyStr, PyInt or PyNone (the
\* alternative keys file_name / file_data are absent). With the debug log
\* on, line 558 takes len() of a truthy payload outside the try block, a
\* TypeError for a number; the log file itself is taken to be writable
SaveItem(st, item, idx, base_name, subsidy_id, subsidy_dir, dirset, debug) ==
    LET file_name == IF Truthy(item.name) THEN item.name.s
                     ELSE FallbackName(base_name, idx)
        file_base64 == item.data
        Fail(reason) ==
            [files |-> st.files, out |-> Append(st.out, FailedEntry(file_name, reason)),
             raised |-> FALSE]
        safe_file_name == SafeFileName(file_name, base_name, idx)
        decoded == b64decode(Strip(file_base64.s))
        written == WriteFile(Append(subsidy_dir, safe_file_name), decoded.bytes,
                             st.files, dirset)
    IN  IF ~item.isDict THEN st
        ELSE IF debug /\ Truthy(file_base64) /\ file_base64.ty # "str"
        THEN [st EXCEPT !.raised = TRUE]
        ELSE IF ~Truthy(file_base64) THEN st
        ELSE IF file_base64.ty # "str" \/ Strip(file_base64.s) = <<>>
        THEN Fail("invalid base64 data")
        ELSE IF ~decoded.ok THEN Fail("binascii.Error")
        ELSE IF decoded.bytes = <<>> THEN Fail("decoded file is empty")
        ELSE IF ~written.ok THEN Fail("OSError")
        ELSE [files |-> written.files,
              out |-> Append(st.out,
                        SavedEntry(safe_file_name, file_name, Len(decoded.bytes),
                                   subsidy_id)),
              raised |-> FALSE]

RECURSIVE SaveList(_, _, _, _, _, _, _, _)
SaveList(st, file_list, i, base_name, subsidy_id, subsidy_dir, dirset, debug) ==
    IF i > Len(file_list) \/ st.raised THEN st
    ELSE SaveList(SaveItem(st, file_list[i], i - 1, base_name, subsidy_id,
                           subsidy_dir, dirset, debug),
                  file_list, i + 1, base_name, subsidy_id, subsidy_dir, dirset, debug)

\* the loop of line 543 over the three categories, from category c on.
\* acc: the files and saved_files (category -> entries) so far, and
\* whether an exception left the loops
RECURSIVE SaveAll(_, _, _, _, _, _, _)
SaveAll(acc, files_data, c, subsidy_id, subsidy_dir, dirset, debug) ==
    IF c > Len(Categories) \/ acc.raised THEN acc
    ELSE LET file_type == Categories[c]
             file_list == files_data[file_type]
             done == SaveList([files |-> acc.files, out |-> <<>>, raised |-> FALSE],
                              file_list, 1, file_type_names(file_type), subsidy_id,
                              subsidy_dir, dirset, debug)
             next == IF file_list = <<>> THEN acc
                     ELSE [files |-> done.files,
                           saved |-> [k \in DOMAIN acc.saved \cup {file_type} |->
                                        IF k = file_type THEN done.out
                                        ELSE acc.saved[k]],
                           raised |-> done.raised]
         IN  SaveAll(next, files_data, c + 1, subsidy_id, subsidy_dir, dirset, debug)

----------------------------------------------------------------------------
(* Detail fetcher: get_subsidy_detail.                                     *)

MsgIdRequired == <<"subsidy_id must be a non-empty string">>
MsgNotFound(subsidy_id) == <<"subsidy id '">> \o subsidy_id \o <<"' was not found">>
MsgUnexpected == <<"unexpected response format">>

\* lines 496-505: the status from the deadline and the clock read in the
\* deadline's own tzinfo (a naive deadline is compared with the local wall
\* clock, which the model takes to show UTC)
StatusOf(end_raw, clock) ==
    LET end_dt == ParseEnd(end_raw)
    IN  IF ~EndTruthy(end_raw) THEN "closed"
        ELSE IF ~end_dt.ok THEN "open"
        ELSE IF end_dt.t >= clock THEN "open"
        ELSE "closed"

\* a detail response body: [t, hasError, error, res, subsidy]. res: what is
\* under "result": "absent" (the body itself is the record), "dict", "list"
\* (a non-empty list whose first item is the record), "list_other" (a
\* non-empty list whose first item is no object), "empty_list", "other"
DetailBody(res, subsidy) ==
    [t |-> "dict", hasError |-> FALSE, error |-> PyNone, res |-> res,
     subsidy |-> subsidy]

\* lines 487-618 on a body that is no error. fs: [files, dirs, debug]
FormatDetail(data, subsidy_id, clock, fs) ==
    LET subsidy == data.subsidy
        subsidy_dir == PathJoin(FILES_DIR, subsidy_id)
        made == Mkdir(subsidy_dir, fs.files, fs.dirs)
        saved == SaveAll([files |-> fs.files, saved |-> [k \in {} |-> <<>>],
                          raised |-> FALSE],
                         subsidy.files, 1, subsidy_id, subsidy_dir, made.dirs,
                         fs.debug)
        Same(r) == [ret |-> r, files |-> fs.files, dirs |-> fs.dirs]
    IN  IF data.t # "dict" THEN Same(Data(ErrBody(MsgUnexpected)))
        ELSE IF data.res \in {"empty_list", "other"}
        THEN Same(Data(ErrBody(MsgUnexpected)))
        ELSE IF data.res = "list_other" THEN Same(Raise("AttributeError"))
        ELSE IF ~made.ok THEN Same(Raise("OSError"))
        ELSE IF saved.raised
        THEN [ret |-> Raise("TypeError"), files |-> saved.files, dirs |-> made.dirs]
        ELSE [ret |-> [tag |-> "detail",
                       id |-> IF subsidy.hasId THEN subsidy.id ELSE subsidy_id,
                       acceptance_end |-> subsidy.end,
                       status |-> StatusOf(subsidy.end, clock),
                       files |-> saved.saved,
                       save_directory |-> subsidy_dir],
              files |-> saved.files,
              dirs |-> made.dirs]

\* DetailOf with the test of line 482 cut short to "HTTPエラー: 4": every
\* 4xx status reads as not found
DetailOfAny4xx(data, subsidy_id, clock, fs) ==
    LET Same(r) == [ret |-> r, files |-> fs.files, dirs |-> fs.dirs]
    IN  IF data.t \in {"null", "int"} THEN Same(Raise("TypeError"))
        ELSE IF data.hasError THEN
            IF data.error.ty # "str" THEN Same(Raise("AttributeError"))
            ELSE IF StartsWith(data.error.s, <<"HTTP error: ", "4">>)
            THEN Same(Data(ErrBody(MsgNotFound(subsidy_id))))
            ELSE Same(Data(data))
        ELSE FormatDetail(data, subsidy_id, clock, fs)

\* lines 480-620 on what the gateway returned
DetailOf(data, subsidy_id, clock, fs) ==
    LET Same(r) == [ret |-> r, files |-> fs.files, dirs |-> fs.dirs]
    IN  IF data.t \in {"null", "int"} THEN Same(Raise("TypeError"))
        ELSE IF data.hasError THEN
            IF data.error.ty # "str" THEN Same(Raise("AttributeError"))
            ELSE IF StartsWith(data.error.s, MsgHttp(404))
            THEN Same(Data(ErrBody(MsgNotFound(subsidy_id))))
            ELSE Same(Data(data))
        ELSE FormatDetail(data, subsidy_id, clock, fs)

\* get_subsidy_detail
get_subsidy_detail(subsidy_id) ==
    LET valid == subsidy_id.ty = "str" /\ Strip(subsidy_id.s) # <<>>
        done == DetailOf(GetJson(detailResp), subsidy_id.s, now,
                         [files |-> files, dirs |-> dirs, debug |-> debug_files])
    IN  /\ valid => netCalls < MaxCalls
        /\ CallGateway(valid)
        /\ files' = IF valid THEN done.files ELSE files
        /\ dirs' = IF valid THEN done.dirs ELSE dirs
        /\ last' = [op |-> "get_subsidy_detail",
                    args |-> [subsidy_id |-> subsidy_id],
                    ret |-> IF valid THEN done.ret ELSE Data(ErrBody(MsgIdRequired))]
        /\ UNCHANGED <<now, searchResp, detailResp, converters, debug_files>>

----------------------------------------------------------------------------
(* Content extractor: get_file_content.                                    *)

\* the extension elements file names of the model end in
ExtTokens == {".pdf", ".PDF", ".txt", ".py", ".bin"}

\* Path(filename).suffix.lower(): "" when the last name has no extension
\* or is the extension alone
SuffixLower(filename) ==
    LET n == Len(filename)
    IN  IF n >= 2 /\ filename[n] \in ExtTokens /\ filename[n - 1] # "/"
        THEN (IF filename[n] = ".PDF" THEN ".pdf" ELSE filename[n])
        ELSE ""

\* file_extension[1:]
ExtName(ext) ==
    CASE ext = ".pdf" -> "pdf"
      [] ext = ".txt" -> "txt"
      [] ext = ".py" -> "py"
      [] ext = ".bin" -> "bin"
      [] OTHER -> ""

\* mimetypes.guess_type(filename)[0] or "application/octet-stream"
MimeOf(filename) ==
    CASE SuffixLower(filename) = ".pdf" -> <<"application/", "pdf">>
      [] SuffixLower(filename) = ".txt" -> <<"text/", "plain">>
      [] SuffixLower(filename) = ".py" -> <<"text/", "x-python">>
      [] OTHER -> <<"application/", "octet-stream">>

supported_extensions ==
    {".pdf", ".docx", ".doc", ".xlsx", ".xls", ".pptx", ".ppt", ".html", ".htm",
     ".xml", ".rtf", ".txt", ".csv", ".md", ".zip"}

\* whether bytes from position i on are well-formed UTF-8 (lead byte and
\* count of continuation bytes)
RECURSIVE Utf8Ok(_, _)
Utf8Ok(b, i) ==
    IF i > Len(b) THEN TRUE
    ELSE LET more == CASE b[i] < 128 -> 0
                       [] b[i] \in 194..223 -> 1
                       [] b[i] \in 224..239 -> 2
                       [] b[i] \in 240..244 -> 3
                       [] OTHER -> 4
         IN  /\ more < 4
             /\ i + more <= Len(b)
             /\ \A j \in (i + 1)..(i + more) : b[j] \in 128..191
             /\ Utf8Ok(b, i + more + 1)

\* open(path, "r", encoding="utf-8").read(): the text, as its code units
\* with "\r\n" and "\r" read as "\n" (universal newlines)
RECURSIVE ReadText(_, _)
ReadText(b, i) ==
    IF i > Len(b) THEN <<>>
    ELSE IF b[i] = 13 THEN
        <<10>> \o ReadText(b, IF i < Len(b) /\ b[i + 1] = 10 THEN i + 2 ELSE i + 1)
    ELSE <<b[i]>> \o ReadText(b, i + 1)

\* lines 709-715: the non-empty page texts, each under a page heading,
\* joined by a rule
RECURSIVE JoinPages(_, _, _)
JoinPages(pages, i, first) ==
    IF i > Len(pages) THEN <<>>
    ELSE IF pages[i] = <<>> THEN JoinPages(pages, i + 1, first)
    ELSE (IF first THEN <<>> ELSE <<"(rule)">>)
         \o <<"## page ">> \o StrOfInt(i) \o <<"(blank line)">> \o pages[i]
         \o JoinPages(pages, i + 1, FALSE)

PreviewLen == 100

MsgFileNotFound(subsidy_id, filename) ==
    <<"file not found: ">> \o subsidy_id \o <<"/">> \o filename
MsgReadError == <<"file read error: ">>

MarkdownResult(filename, text, mime_type, file_size, method) ==
    [tag |-> "markdown", filename |-> filename, content_markdown |-> text,
     mime_type |-> mime_type, size_bytes |-> file_size, extraction_method |-> method]

\* lines 746-758
Base64Result(filename, mime_type, read) ==
    LET content_base64 == b64encode(read.bytes)
    IN  IF ~read.ok THEN Data(ErrBody(MsgReadError))
        ELSE [tag |-> "base64", filename |-> filename,
              content_base64 |-> content_base64, mime_type |-> mime_type,
              size_bytes |-> Len(read.bytes),
              data_uri |->
                IF Len(content_base64) > PreviewLen
                THEN <<"data:">> \o mime_type \o <<";base64,">>
                     \o SubSeq(content_base64, 1, PreviewLen) \o <<"...">>
                ELSE <<"data:">> \o mime_type \o <<";base64,">> \o content_base64]

\* ConvertStep without the handler of lines 706-727: a conversion that
\* raises goes to base64 at once
ConvertStepNoPdfFallback(filename, mime_type, file_size, conv) ==
    IF conv.markitdown.kind = "text"
       /\ conv.markitdown.text # <<>> /\ Strip(conv.markitdown.text) # <<>>
    THEN [done |-> TRUE,
          ret |-> MarkdownResult(filename, conv.markitdown.text, mime_type,
                                 file_size, <<"markitdown_", ExtName(SuffixLower(filename))>>)]
    ELSE [done |-> FALSE, ret |-> Raise("none")]

\* lines 685-728: the conversion step on a supported extension. conv: what
\* MarkItDown and pdfplumber do on this file. done: a result was returned;
\* otherwise return_format has become "base64"
ConvertStep(filename, mime_type, file_size, conv) ==
    LET ext == SuffixLower(filename)
        pdf_text == JoinPages(conv.pdfplumber.pages, 1, TRUE)
        NotDone == [done |-> FALSE, ret |-> Raise("none")]
    IN  IF conv.markitdown.kind = "text" THEN
            IF conv.markitdown.text # <<>> /\ Strip(conv.markitdown.text) # <<>>
            THEN [done |-> TRUE,
                  ret |-> MarkdownResult(filename, conv.markitdown.text, mime_type,
                                         file_size, <<"markitdown_", ExtName(ext)>>)]
            ELSE NotDone
        ELSE IF mime_type = <<"application/", "pdf">>
                /\ ~conv.pdfplumber.raises
                /\ pdf_text # <<>> /\ Strip(pdf_text) # <<>>
        THEN [done |-> TRUE,
              ret |-> MarkdownResult(filename, pdf_text, mime_type, file_size,
                                     <<"pdfplumber_markdown">>)]
        ELSE NotDone

\* FileContentOf without the handler of lines 742-744: a text file that is
\* no UTF-8 ends in the handler of line 760
FileContentOfReadUncaught(subsidy_id, filename, return_format, conv, fs) ==
    LET file_path == PathJoin(PathJoin(FILES_DIR, subsidy_id.s), filename.s)
        mime_type == MimeOf(filename.s)
        read == ReadFile(file_path, fs.files, fs.dirs)
        file_size == Len(read.bytes)
        wantsMarkdown == return_format = PyStr(<<"markdown">>)
        supported == SuffixLower(filename.s) \in supported_extensions
        step == ConvertStep(filename.s, mime_type, file_size, conv)
    IN  IF subsidy_id.ty # "str" \/ filename.ty # "str"
        THEN Data(ErrBody(MsgReadError))
        ELSE IF ~Exists(file_path, fs.files, fs.dirs)
        THEN Data(ErrBody(MsgFileNotFound(subsidy_id.s, filename.s)))
        ELSE IF wantsMarkdown /\ supported THEN
            IF step.done THEN step.ret
            ELSE Base64Result(filename.s, mime_type, read)
        ELSE IF wantsMarkdown /\ StartsWith(mime_type, <<"text/">>) THEN
            IF read.ok /\ Utf8Ok(read.bytes, 1)
            THEN MarkdownResult(filename.s, ReadText(read.bytes, 1), mime_type,
                                file_size, <<"text_file">>)
            ELSE Data(ErrBody(MsgReadError))
        ELSE Base64Result(filename.s, mime_type, read)

\* lines 655-762. fs: [files, dirs]
FileContentOf(subsidy_id, filename, return_format, conv, fs) ==
    LET file_path == PathJoin(PathJoin(FILES_DIR, subsidy_id.s), filename.s)
        mime_type == MimeOf(filename.s)
        read == ReadFile(file_path, fs.files, fs.dirs)
        file_size == Len(read.bytes)
        wantsMarkdown == return_format = PyStr(<<"markdown">>)
        supported == SuffixLower(filename.s) \in supported_extensions
        step == ConvertStep(filename.s, mime_type, file_size, conv)
    IN  IF subsidy_id.ty # "str" \/ filename.ty # "str"
        THEN Data(ErrBody(MsgReadError))
        ELSE IF ~Exists(file_path, fs.files, fs.dirs)
        THEN Data(ErrBody(MsgFileNotFound(subsidy_id.s, filename.s)))
        ELSE IF wantsMarkdown /\ supported THEN
            IF step.done THEN step.ret
            ELSE Base64Result(filename.s, mime_type, read)
        ELSE IF wantsMarkdown /\ StartsWith(mime_type, <<"text/">>)
                /\ read.ok /\ Utf8Ok(read.bytes, 1)
        THEN MarkdownResult(filename.s, ReadText(read.bytes, 1), mime_type,
                            file_size, <<"text_file">>)
        ELSE Base64Result(filename.s, mime_type, read)

\* get_file_content
get_file_content(subsidy_id, filename, return_format) ==
    /\ last' = [op |-> "get_file_content",
                args |-> [subsidy_id |-> subsidy_id, filename |-> filename,
                          return_format |-> return_format],
                ret |-> FileContentOf(subsidy_id, filename, return_format, converters,
                                      [files |-> files, dirs |-> dirs])]
    /\ UNCHANGED <<now, searchResp, detailResp, converters, files, dirs, netCalls,
                   debug_files, _HTTP_CLIENT, clients_made, co>>

----------------------------------------------------------------------------
(* The environment: what the upstream API can answer, and the clock.       *)

Clock == {0, 1}

DaySamples ==
    {-1, 0, UrgentDays, UrgentDays + 1, ThisMonthDays, ThisMonthDays + 1,
     NextMonthDays, NextMonthDays + 1}

EndSamples ==
    {EndField("absent", 0), EndField("empty", 0), EndField("nonstr", 0),
     EndField("bad", 0), EndField("naive", (ThisMonthDays + 1) * TicksPerDay),
     EndField("offset", TicksPerDay)}
    \cup {EndField("z", d * TicksPerDay) : d \in DaySamples}

AmountSamples ==
    {AmountField("absent", 0), AmountField("empty", 0), AmountField("int0", 0),
     AmountField("bad", 0), AmountField("nan", 0)}
    \cup {AmountField("num", v) :
            v \in {0, Limit1m, Limit1m + 1, Limit10m, Limit10m + 1, HighAmount - 1,
                   HighAmount, Limit100m, Limit100m + 1}}

\* the (deadline, amount) pairs of the records the upstream sends
RecordShapes ==
    {[end |-> e, amt |-> AmountField("num", HighAmount)] : e \in EndSamples}
    \cup {[end |-> EndField("absent", 0), amt |-> a] : a \in AmountSamples}
    \cup {[end |-> EndField("z", -TicksPerDay), amt |-> a] :
            a \in {AmountField("absent", 0), AmountField("bad", 0),
                   AmountField("num", Limit1m)}}

\* the i-th record of a result list: ids are unique within a list
MakeRecord(i, shape) ==
    [id |-> <<"S", Digits[i + 1]>>, title |-> <<"T", Digits[i + 1]>>,
     end |-> shape.end, amt |-> shape.amt]

ResultLists(shapes) ==
    UNION {{[i \in 1..n |-> MakeRecord(i, f[i])] : f \in [1..n -> shapes]} :
            n \in 0..MaxRecords}

ResultBody(result) == JBody("dict", FALSE, PyNone, TRUE, result)

\* answers that are no {"result": [...]} object
OddBodies ==
    {ResultBody(JOther("dict", 0)), ResultBody(JOther("dict", 2)),
     ResultBody(JOther("str", 3)), ResultBody(JOther("null", 0)),
     ResultBody(JOther("int", 0)),
     JBody("dict", FALSE, PyNone, FALSE, JOther("null", 0)),
     JBody("dict", TRUE, PyStr(<<"upstream says no">>), FALSE, JOther("null", 0)),
     JBody("list", FALSE, PyNone, FALSE, JOther("null", 0)),
     JBody("null", FALSE, PyNone, FALSE, JOther("null", 0)),
     JBody("int", FALSE, PyNone, FALSE, JOther("null", 0))}

Failures ==
    {FailOutcome("timeout", 0), FailOutcome("connect", 0),
     FailOutcome("status", 404), FailOutcome("status", 400),
     FailOutcome("status", 500), FailOutcome("other", 0)}

FewShapes ==
    {[end |-> EndField("z", 0), amt |-> AmountField("num", Limit1m)],
     [end |-> EndField("absent", 0), amt |-> AmountField("absent", 0)]}

SearchOutcomes ==
    {OkOutcome(ResultBody(JList(l))) : l \in ResultLists(FewShapes)}
    \cup {OkOutcome(b) : b \in OddBodies} \cup Failures

OverviewOutcomes ==
    {OkOutcome(ResultBody(JList(l))) : l \in ResultLists(RecordShapes)}
    \cup {OkOutcome(b) : b \in OddBodies} \cup Failures

NoDetail == FailOutcome("connect", 0)
NoConverters ==
    [markitdown |-> [kind |-> "raise", text |-> <<>>],
     pdfplumber |-> [raises |-> TRUE, pages |-> <<>>]]
NoFiles == [p \in {} |-> <<>>]

\* most coroutines inside _get_json at a time
MaxCoroutines == 3

Coroutines == 1..MaxCoroutines

\* line 30, and no coroutine inside _get_json
NoGatewayUse ==
    /\ _HTTP_CLIENT = 0
    /\ clients_made = 0
    /\ co = [c \in Coroutines |-> [pc |-> "idle", client |-> 0, ret |-> PyNone]]

InitStore ==
    /\ files = NoFiles
    /\ dirs = {<<>>, FILES_DIR, <<DotDot>>, <<RootName>>}
    /\ netCalls = 0
    /\ debug_files = FALSE
    /\ NoGatewayUse
    /\ last = [op |-> "none", args |-> [none |-> TRUE], ret |-> [tag |-> "none"]]

\* most attachments in one category list
MaxItems == 2

\* most pages of a PDF
MaxPages == 2

Item(name, data) == [isDict |-> TRUE, name |-> name, data |-> data]

\* file contents
HiBytes == <<72, 105>>
CrLfBytes == <<13, 10, 66>>
BinaryBytes == <<255, 0, 65, 13, 10>>

Valid1 == PyStr(b64encode(HiBytes))
Valid2 == PyStr(b64encode(BinaryBytes))
ValidPadded == PyStr(<<" ">> \o b64encode(CrLfBytes) \o <<" ">>)

ReportPdf == PyStr(<<"a", " ", "b", ".pdf">>)
ReportPdfSafe == PyStr(<<"a", "_", "b", ".pdf">>)
NotesTxt == PyStr(<<"notes", ".txt">>)

\* the attachments the upstream sends in the guidelines list
ItemSamples ==
    {Item(ReportPdf, Valid1), Item(ReportPdfSafe, Valid2), Item(PyNone, ValidPadded),
     Item(PyStr(DotDot), Valid1), Item(ReportPdf, PyStr(<<>>)),
     Item(ReportPdf, PyStr(<<"Q", "Q", "=">>)), Item(NotesTxt, PyStr(<<"!", "!">>)),
     Item(ReportPdf, PyStr(<<" ", " ">>)), Item(PyNone, PyInt(7)),
     [isDict |-> FALSE, name |-> PyNone, data |-> PyNone]}

ItemLists == UNION {[1..n -> ItemSamples] : n \in 0..MaxItems}

FilesData(guidelines, outline, form) ==
    [application_guidelines |-> guidelines, outline_of_grant |-> outline,
     application_form |-> form]

NoAttachments == FilesData(<<>>, <<>>, <<>>)

Subsidy(hasId, end, files_data) ==
    [hasId |-> hasId, id |-> <<"upstream id">>, end |-> end, files |-> files_data]

\* records that differ in their deadline
EndOutcomes ==
    {OkOutcome(DetailBody(res, Subsidy(TRUE, e, NoAttachments))) :
        res \in {"absent", "dict", "list"}, e \in EndSamples}

\* records that differ in their attachments
AttachmentOutcomes ==
    {OkOutcome(DetailBody("dict", Subsidy(FALSE, EndField("z", 0),
                                          FilesData(g, <<Item(ReportPdf, Valid2)>>,
                                                    <<Item(PyNone, Valid1)>>)))) :
        g \in ItemLists}

\* answers that hold no record
OddDetailOutcomes ==
    {OkOutcome(DetailBody(res, Subsidy(TRUE, EndField("absent", 0), NoAttachments))) :
        res \in {"list_other", "empty_list", "other"}}
    \cup {OkOutcome([DetailBody("absent", Subsidy(TRUE, EndField("absent", 0),
                                                 NoAttachments))
                     EXCEPT !.t = t]) : t \in {"list", "null"}}
    \cup {OkOutcome([DetailBody("absent", Subsidy(TRUE, EndField("absent", 0),
                                                 NoAttachments))
                     EXCEPT !.hasError = TRUE, !.error = e]) :
            e \in {PyStr(<<"upstream says no">>), PyInt(5)}}
    \cup Failures

\* a record whose attachments cover the kinds of file get_file_content tells
\* apart
ContentOutcomes ==
    {OkOutcome(DetailBody("dict", Subsidy(FALSE, EndField("z", 0),
        FilesData(<<Item(ReportPdf, Valid1), Item(NotesTxt, Valid1)>>,
                  <<Item(PyStr(<<"bad", ".txt">>), Valid2),
                    Item(PyStr(<<"run", ".py">>), ValidPadded)>>,
                  <<Item(PyStr(<<"data", ".bin">>), Valid1),
                    Item(PyStr(<<"bad", ".py">>), Valid2),
                    Item(PyStr(<<"SCAN", ".PDF">>), Valid2)>>))))}

PageTexts == {<<>>, <<"page text">>, <<" ">>}

ConverterBehaviours ==
    {[markitdown |-> m, pdfplumber |-> q] :
        m \in {[kind |-> "raise", text |-> <<>>], [kind |-> "text", text |-> <<>>],
               [kind |-> "text", text |-> <<" ">>],
               [kind |-> "text", text |-> <<"converted text">>]},
        q \in {[raises |-> TRUE, pages |-> <<>>]}
              \cup {[raises |-> FALSE, pages |-> pg] :
                        pg \in UNION {[1..n -> PageTexts] : n \in 0..MaxPages}}}

----------------------------------------------------------------------------
(* The callers' arguments.                                                 *)

Keyword(lead, n, trail) == PyStr(Rep(lead, " ") \o Rep(n, "k") \o Rep(trail, " "))

EndSort == <<"acceptance_end_datetime">>
Asc == PyStr(<<"A", "S", "C">>)

SomeOpt ==
    [k \in OptionalKeys |->
        CASE k = "use_purpose" -> PyStr(<<"purpose">>)
          [] k = "industry" -> PyStr(<<>>)
          [] OTHER -> PyNone]

SearchArg(keyword, opt, sort, order, acceptance) ==
    [keyword |-> keyword, opt |-> opt, sort |-> sort, order |-> order,
     acceptance |-> acceptance]

SearchArgs ==
    {SearchArg(k, NoOpt, s, o, a) :
        k \in {Keyword(0, 1, 0), Keyword(0, MinKeywordLen, 0), Keyword(1, MinKeywordLen, 1)},
        s \in {EndSort, <<"id">>},
        o \in {Asc, PyStr(<<"d", "e", "s", "c">>), PyStr(<<"U", "P">>)},
        a \in {1, 2}}
    \cup {SearchArg(k, NoOpt, EndSort, Asc, 1) :
            k \in {PyNone, PyInt(5), Keyword(0, 0, 0), Keyword(2, 0, 1), Keyword(1, 1, 1),
                   Keyword(0, MaxKeywordLen, 0), Keyword(1, MaxKeywordLen, 1),
                   Keyword(0, MaxKeywordLen + 1, 0), Keyword(1, MaxKeywordLen + 1, 1)}}
    \cup {SearchArg(Keyword(0, MinKeywordLen, 0), SomeOpt, s, Asc, 0) :
            s \in {<<"created_date">>, <<"acceptance_start_datetime">>, <<>>}}
    \cup {SearchArg(Keyword(0, MinKeywordLen, 0), NoOpt, EndSort, o, a) :
            o \in {PyStr(<<"D", "E", "S", "C">>), PyStr(<<"A", "s", "c">>), PyStr(<<>>),
                   PyStr(<<"A", "S", "C", " ">>), PyNone},
            a \in {0, -1}}

OutputFormats ==
    {PyStr(<<"j", "s", "o", "n">>), PyStr(<<"c", "s", "v">>), PyStr(<<"C", "S", "V">>),
     PyNone}

IdA == PyStr(<<"A">>)

DetailIds == {IdA, PyStr(<<" ">>), PyNone}

Markdown == PyStr(<<"markdown">>)
Base64 == PyStr(<<"base64">>)

\* the names a caller asks get_file_content for
StoredNames ==
    {ReportPdfSafe, NotesTxt, PyStr(FallbackName("guidelines", 1)),
     PyStr(FallbackName("form", 0)), PyStr(<<"missing", ".pdf">>), PyNone}

ContentNames ==
    {ReportPdfSafe, NotesTxt, PyStr(<<"bad", ".txt">>), PyStr(<<"run", ".py">>),
     PyStr(<<"data", ".bin">>), PyStr(<<"bad", ".py">>), PyStr(<<"SCAN", ".PDF">>),
     PyStr(<<"missing", ".pdf">>), PyStr(<<>>)}

----------------------------------------------------------------------------
(* Specifications.                                                         *)

SearchCall == \E a \in SearchArgs :
    search_subsidies(a.keyword, a.opt, a.sort, a.order, a.acceptance)

OverviewCall == \E f \in OutputFormats : get_subsidy_overview(f)

\* the search adapter alone
InitSearch ==
    /\ now = 0
    /\ searchResp \in SearchOutcomes
    /\ detailResp = NoDetail
    /\ converters = NoConverters
    /\ InitStore

NextSearch == SearchCall

SpecSearch == InitSearch /\ [][NextSearch]_vars

\* the statistics engine on top of the search adapter
InitOverview ==
    /\ now \in Clock
    /\ searchResp \in OverviewOutcomes
    /\ detailResp = NoDetail
    /\ converters = NoConverters
    /\ InitStore

NextOverview == OverviewCall

SpecOverview == InitOverview /\ [][NextOverview]_vars

----------------------------------------------------------------------------
(* Claims about the statistics engine (checked under SpecOverview).        *)

\* the overview call returned a JSON snapshot
OverviewReturnedStats ==
    last.op = "get_subsidy_overview" /\ last.ret.tag = "stats"

\* the records the upstream sent in its result list
RecordsSent == GetJson(searchResp).result.items

AmountTotal(r) ==
    r.under_1m + r.under_10m + r.under_100m + r.over_100m + r.unspecified

\* whole days from the clock to a record's deadline. A timestamp without
\* offset is read as UTC here; the one the environment sends is a month
\* ahead, so it is in the future under every offset
NominalDays(rec) == DaysBetween(rec.end.t, now)

EndParses(rec) == EndTruthy(rec.end) /\ ParseEnd(rec.end).ok

CountWhere(P(_)) == Cardinality({i \in 1..Len(RecordsSent) : P(RecordsSent[i])})

\* C1: after the loop of get_subsidy_overview the five amount counts sum to
\* the number of records of the result set: every record, whatever its
\* deadline, incremented exactly one amount bucket.
C1_AmountBucketsCoverEveryRecord ==
    OverviewReturnedStats =>
        AmountTotal(last.ret.stats.by_amount_range) = Len(RecordsSent)

\* C3: every record whose deadline parses is, with d its whole days left,
\* in no deadline bucket and not urgent when d < 0, and otherwise in exactly
\* one of this_month (d <= 30), next_month (30 < d <= 60) and
\* after_next_month (d > 60), and urgent iff 0 <= d <= 14.
C3_DeadlineBucketsByDaysLeft ==
    OverviewReturnedStats =>
        LET st == last.ret.stats
            InThis(r) == EndParses(r) /\ 0 <= NominalDays(r)
                         /\ NominalDays(r) <= ThisMonthDays
            InNext(r) == EndParses(r) /\ ThisMonthDays < NominalDays(r)
                         /\ NominalDays(r) <= NextMonthDays
            InAfter(r) == EndParses(r) /\ NextMonthDays < NominalDays(r)
            IsUrgent(r) == EndParses(r) /\ 0 <= NominalDays(r)
                           /\ NominalDays(r) <= UrgentDays
        IN  /\ st.by_deadline_period.this_month = CountWhere(InThis)
            /\ st.by_deadline_period.next_month = CountWhere(InNext)
            /\ st.by_deadline_period.after_next_month = CountWhere(InAfter)
            /\ Len(st.urgent_deadlines) = CountWhere(IsUrgent)
            /\ \A i \in 1..Len(RecordsSent) :
                   IsUrgent(RecordsSent[i]) <=>
                       \E j \in 1..Len(st.urgent_deadlines) :
                           /\ st.urgent_deadlines[j].id = RecordsSent[i].id
                           /\ st.urgent_deadlines[j].days_left
                                  = NominalDays(RecordsSent[i])

\* the search found no record: the adapter returned a result set of count 0
EmptyResultSet ==
    LET found == _search_subsidies_internal(
                     DefaultKeyword, NoOpt, EndSort, <<"A", "S", "C">>, 1, searchResp)
    IN  found.tag = "search" /\ found.total_count = 0

OverviewReturnedCsvOfEmpty ==
    /\ last.op = "get_subsidy_overview"
    /\ last.args.output_format.ty = "str"
    /\ Lower(last.args.output_format.s) = <<"c", "s", "v">>
    /\ EmptyResultSet

\* C9 as stated: the csv rendering of an empty result set has total_count 0
\* and every table is its header row alone.
C9_EmptyCsvHeadersOnly ==
    OverviewReturnedCsvOfEmpty =>
        /\ last.ret.tag = "csv"
        /\ last.ret.total_count = 0
        /\ \A k \in DOMAIN last.ret.tables : Len(last.ret.tables[k]) = 1

\* C9 (amended): the csv rendering of an empty result set is no error, has
\* total_count 0, holds the two histogram tables alone (the urgent and
\* high-amount tables are left out), and each histogram table is its header
\* row followed by one row per bucket, every count "0".
C9_EmptyCsvZeroHistograms ==
    OverviewReturnedCsvOfEmpty =>
        /\ last.ret.tag = "csv"
        /\ last.ret.total_count = 0
        /\ DOMAIN last.ret.tables = {"deadline_statistics", "amount_statistics"}
        /\ Len(last.ret.tables["deadline_statistics"]) = 1 + Len(DeadlineKeys)
        /\ Len(last.ret.tables["amount_statistics"]) = 1 + Len(AmountKeys)
        /\ \A k \in DOMAIN last.ret.tables :
               \A i \in 2..Len(last.ret.tables[k]) :
                   last.ret.tables[k][i][2] = <<"0">>

C9_Witness ==
    /\ OverviewReturnedCsvOfEmpty
    /\ last.ret.tag = "csv"
    /\ last.args.output_format.s = <<"C", "S", "V">>

----------------------------------------------------------------------------
(* Claims about the search adapter (checked under SpecSearch).             *)

ValidationMessages == {MsgKeyword, MsgAcceptance, MsgSort, MsgOrder}

IsValidationError(r) == \E m \in ValidationMessages : IsErrorRet(r, m)

KeywordOutOfBounds(a) ==
    /\ a.keyword.ty = "str"
    /\ \/ Len(Strip(a.keyword.s)) < MinKeywordLen
       \/ Len(Strip(a.keyword.s)) > MaxKeywordLen

\* C4 as stated: a search whose keyword is out of bounds, whose sort is no
\* allowed field, whose order is other than ASC / DESC or whose acceptance
\* is other than 0 / 1 returns a validation error and calls no gateway.
C4_InvalidCriteriaNeverReachNetwork ==
    [][(/\ last'.op = "search_subsidies"
        /\ \/ KeywordOutOfBounds(last'.args)
           \/ last'.args.sort \notin allowed_sorts
           \/ last'.args.order \notin {PyStr(o) : o \in AllowedOrders}
           \/ last'.args.acceptance \notin {0, 1})
       => (netCalls' = netCalls /\ IsValidationError(last'.ret))]_vars

\* the criteria the amended claim calls invalid: the order is judged by its
\* upper-cased text
InvalidCriteria(a) ==
    \/ KeywordOutOfBounds(a)
    \/ a.sort \notin allowed_sorts
    \/ Upper(StrOf(a.order)) \notin AllowedOrders
    \/ a.acceptance \notin {0, 1}

\* C4 (amended): a search whose keyword is out of bounds, whose sort is no
\* allowed field, whose order is, once upper-cased, other than ASC / DESC,
\* or whose acceptance is other than 0 / 1 returns a validation error and
\* calls no gateway.
C4_InvalidUpperCasedCriteriaNeverReachNetwork ==
    [][(last'.op = "search_subsidies" /\ InvalidCriteria(last'.args))
       => (netCalls' = netCalls /\ IsValidationError(last'.ret))]_vars

\* a gateway call was made before, and then a search with a keyword that is
\* too short once trimmed was refused without another one
C4_Witness ==
    /\ last.op = "search_subsidies"
    /\ last.args.keyword = Keyword(1, 1, 1)
    /\ IsErrorRet(last.ret, MsgKeyword)
    /\ netCalls = 1

\* the search called the gateway and the gateway answered with a body that
\* is no error
SearchGotBody ==
    /\ last.op = "search_subsidies"
    /\ SearchValidation(last.args.keyword, last.args.sort, last.args.order,
                        last.args.acceptance) = <<>>
    /\ searchResp.kind = "ok"
    /\ ~searchResp.body.hasError

\* C10: on a successful gateway response the search adapter never raises
\* and returns the result list with its length and the echoed query when the
\* payload holds a result list, and the empty result set with total_count 0
\* for every other payload.
C10_TwoShapesNeverRaises ==
    SearchGotBody =>
        LET body == searchResp.body
            a == last.args
        IN  IF body.t = "dict" /\ body.hasResult /\ body.result.t = "list"
            THEN last.ret = SearchShape(
                                Len(body.result.items), body.result, TRUE,
                                BuildParams(a.keyword.s, a.opt, a.sort,
                                            Upper(StrOf(a.order)), a.acceptance))
            ELSE last.ret = SearchShape(0, JList(<<>>), FALSE, NoConditions)

DetailCall == \E id \in DetailIds : get_subsidy_detail(id)

StoredContentCall ==
    \E f \in StoredNames : get_file_content(IdA, f, Base64)

ContentCall ==
    \E f \in ContentNames, fmt \in {Markdown, Base64, PyNone} :
        get_file_content(IdA, f, fmt)

\* the detail fetcher with the attachment persister, and the reading back
\* of what it stored
InitDetail ==
    /\ \/ now \in Clock /\ detailResp \in EndOutcomes
       \/ now = 0 /\ detailResp \in AttachmentOutcomes \cup OddDetailOutcomes
    /\ searchResp = FailOutcome("connect", 0)
    /\ converters = NoConverters
    /\ InitStore

NextDetail == DetailCall \/ StoredContentCall

SpecDetail == InitDetail /\ [][NextDetail]_vars

\* the content extractor on files the detail fetcher stored
InitContent ==
    /\ now = 0
    /\ detailResp \in ContentOutcomes
    /\ searchResp = FailOutcome("connect", 0)
    /\ converters \in ConverterBehaviours
    /\ InitStore

NextContent == get_subsidy_detail(IdA) \/ ContentCall

SpecContent == InitContent /\ [][NextContent]_vars

----------------------------------------------------------------------------
(* Claims about the detail fetcher and the attachment persister (checked   *)
(* under SpecDetail).                                                      *)

DetailReturned == last.op = "get_subsidy_detail" /\ last.ret.tag = "detail"

\* the record the upstream sent
SentEnd == detailResp.body.subsidy.end
SentList(c) == detailResp.body.subsidy.files[c]

CategorySet == {Categories[c] : c \in DOMAIN Categories}

\* C2: the status of a detail record is "closed" if and only if
\* acceptance_end_datetime is present, parses as a timestamp and is earlier
\* than the current time; in every other case it is "open".
C2_ClosedIffDeadlineParsesAndHasPassed ==
    DetailReturned =>
        /\ last.ret.status \in {"open", "closed"}
        /\ last.ret.status = "closed"
           <=> /\ EndTruthy(SentEnd)
               /\ ParseEnd(SentEnd).ok
               /\ ParseEnd(SentEnd).t < now

\* the payload is a string that decodes to at least one byte
ValidPayload(item) ==
    /\ item.isDict
    /\ item.data.ty = "str"
    /\ b64decode(Strip(item.data.s)).ok
    /\ b64decode(Strip(item.data.s)).bytes # <<>>

PayloadBytes(item) == b64decode(Strip(item.data.s)).bytes

EmptyPayload(item) == item.isDict /\ item.data \in {PyStr(<<>>), PyNone}

\* the name the item is shown under, and the name of its file
DisplayName(item, i, c) ==
    IF Truthy(item.name) THEN item.name.s ELSE FallbackName(file_type_names(c), i - 1)

StoredName(item, i, c) ==
    SafeFileName(DisplayName(item, i, c), file_type_names(c), i - 1)

\* the file name is no way to a directory
PlainName(item, i, c) == StoredName(item, i, c) \notin {Dot, DotDot}

\* the list of category c holds two items, a valid payload at position i and
\* an empty payload at the other position
ValidAndEmpty(c, i) ==
    /\ Len(SentList(c)) = 2
    /\ i \in 1..2
    /\ ValidPayload(SentList(c)[i])
    /\ EmptyPayload(SentList(c)[3 - i])

\* C5: a category list with one valid base64 payload and one empty payload
\* yields exactly two entries, a success and an explicit failure, in the
\* order of the input items.
C5_ValidAndEmptyYieldTwoEntries ==
    DetailReturned =>
        \A c \in CategorySet, i \in 1..2 :
            ValidAndEmpty(c, i) /\ PlainName(SentList(c)[i], i, c) =>
                /\ c \in DOMAIN last.ret.files
                /\ Len(last.ret.files[c]) = 2
                /\ last.ret.files[c][i].ok
                /\ ~last.ret.files[c][3 - i].ok

\* C5, amended: such a list yields exactly one entry, the one of the item
\* with the valid payload (a success when its file was written); the item
\* with the empty payload is skipped and has no entry.
C5_ValidAndEmptyYieldOneEntry ==
    DetailReturned =>
        \A c \in CategorySet, i \in 1..2 :
            ValidAndEmpty(c, i) =>
                /\ c \in DOMAIN last.ret.files
                /\ Len(last.ret.files[c]) = 1
                /\ last.ret.files[c][1].original_name
                      = DisplayName(SentList(c)[i], i, c)
                /\ PlainName(SentList(c)[i], i, c) =>
                      /\ last.ret.files[c][1].ok
                      /\ last.ret.files[c][1].name = StoredName(SentList(c)[i], i, c)
                      /\ last.ret.files[c][1].size = Len(PayloadBytes(SentList(c)[i]))

\* the empty payload comes first, and the only entry is the success of the
\* second item
C5_Witness ==
    /\ DetailReturned
    /\ ValidAndEmpty("application_guidelines", 2)
    /\ Len(last.ret.files["application_guidelines"]) = 1
    /\ last.ret.files["application_guidelines"][1].ok

\* the detail fetcher has just reported item i of category c as stored, and
\* the step taken reads that file back as base64
ReadsBack(c, i) ==
    /\ DetailReturned
    /\ i \in 1..Len(SentList(c))
    /\ ValidPayload(SentList(c)[i])
    /\ PlainName(SentList(c)[i], i, c)
    /\ last'.op = "get_file_content"
    /\ last'.args.subsidy_id = last.args.subsidy_id
    /\ last'.args.filename = PyStr(StoredName(SentList(c)[i], i, c))
    /\ last'.args.return_format = Base64

\* C6: a valid payload that get_subsidy_detail decoded and wrote is what a
\* later get_file_content for the same identifier and the reported name
\* returns as base64: the content decodes to the payload's bytes and
\* size_bytes is their number.
C6_StoredPayloadReadsBackUnchanged ==
    [][\A c \in CategorySet, i \in 1..(MaxItems + 1) :
          ReadsBack(c, i) =>
              /\ last'.ret.tag = "base64"
              /\ b64decode(last'.ret.content_base64).ok
              /\ b64decode(last'.ret.content_base64).bytes = PayloadBytes(SentList(c)[i])
              /\ last'.ret.size_bytes = Len(PayloadBytes(SentList(c)[i]))]_vars

----------------------------------------------------------------------------
(* Claims about the content extractor (checked under SpecContent).         *)

\* get_file_content was asked for markdown of a file that exists
MarkdownOfStoredFile ==
    /\ last.op = "get_file_content"
    /\ last.args.return_format = Markdown
    /\ last.args.subsidy_id.ty = "str"
    /\ last.args.filename.ty = "str"
    /\ ReadFile(PathJoin(PathJoin(FILES_DIR, last.args.subsidy_id.s),
                         last.args.filename.s), files, dirs).ok

AskedBytes ==
    ReadFile(PathJoin(PathJoin(FILES_DIR, last.args.subsidy_id.s),
                      last.args.filename.s), files, dirs).bytes

AskedMime == MimeOf(last.args.filename.s)

AskedIsPdf == AskedMime = <<"application/", "pdf">>
AskedIsText == StartsWith(AskedMime, <<"text/">>)
AskedSupported == SuffixLower(last.args.filename.s) \in supported_extensions

ConversionRaises == converters.markitdown.kind = "raise"

ConversionBlank ==
    /\ converters.markitdown.kind = "text"
    /\ Strip(converters.markitdown.text) = <<>>

PdfText == JoinPages(converters.pdfplumber.pages, 1, TRUE)

PdfTextNonBlank == ~converters.pdfplumber.raises /\ Strip(PdfText) # <<>>

ReturnedPdfText ==
    /\ last.ret.tag = "markdown"
    /\ last.ret.extraction_method = <<"pdfplumber_markdown">>
    /\ last.ret.content_markdown = PdfText

ReturnedRawBytes ==
    /\ last.ret.tag = "base64"
    /\ last.ret.content_base64 = b64encode(AskedBytes)

ReturnedPlainRead ==
    /\ last.ret.tag = "markdown"
    /\ last.ret.extraction_method = <<"text_file">>
    /\ last.ret.content_markdown = ReadText(AskedBytes, 1)

\* C7: for markdown of a PDF, whenever the conversion raises or returns
\* blank text, the page-by-page extraction comes next, and its text, if not
\* blank, is returned under the tag pdfplumber_markdown instead of raw bytes.
C7_PdfFallbackAfterRaiseOrBlank ==
    MarkdownOfStoredFile /\ AskedIsPdf /\ (ConversionRaises \/ ConversionBlank)
                         /\ PdfTextNonBlank
        => ReturnedPdfText

\* C7, amended: the page-by-page extraction comes next only when the
\* conversion raises, and then its text, if not blank, is returned under the
\* tag pdfplumber_markdown; when the conversion returns blank text the raw
\* bytes are returned whatever the page-by-page extraction would give.
C7_PdfFallbackAfterRaiseOnly ==
    MarkdownOfStoredFile /\ AskedIsPdf =>
        /\ ConversionRaises /\ PdfTextNonBlank => ReturnedPdfText
        /\ ConversionRaises /\ ~PdfTextNonBlank => ReturnedRawBytes
        /\ ConversionBlank => ReturnedRawBytes

\* the conversion raised and the second page of the PDF had text
C7_Witness ==
    /\ MarkdownOfStoredFile
    /\ AskedIsPdf
    /\ ConversionRaises
    /\ converters.pdfplumber.pages = <<<<>>, <<"page text">>>>
    /\ ReturnedPdfText

\* C8: for markdown of a file of a text/* type, whenever the conversion
\* and the PDF fallback have failed or do not apply, the file is read as
\* UTF-8 and the text, if the read works, is returned under the tag
\* text_file; raw bytes are returned only if that read fails too.
C8_PlainReadAfterFailedConversion ==
    MarkdownOfStoredFile /\ AskedIsText
                         /\ (~AskedSupported \/ ConversionRaises \/ ConversionBlank)
        => /\ Utf8Ok(AskedBytes, 1) => ReturnedPlainRead
           /\ ~Utf8Ok(AskedBytes, 1) => ReturnedRawBytes

\* C8, amended: the file is read as UTF-8 only when its extension is outside
\* the supported set, so that no conversion was tried; when a conversion was
\* tried and raised or returned blank text, raw bytes are returned and the
\* file is not read as text.
C8_PlainReadOnlyWithoutConversion ==
    MarkdownOfStoredFile /\ AskedIsText =>
        /\ ~AskedSupported /\ Utf8Ok(AskedBytes, 1) => ReturnedPlainRead
        /\ ~AskedSupported /\ ~Utf8Ok(AskedBytes, 1) => ReturnedRawBytes
        /\ AskedSupported /\ (ConversionRaises \/ ConversionBlank) => ReturnedRawBytes

\* a Python source was read as text, its "\r\n" as "\n"
C8_Witness ==
    /\ MarkdownOfStoredFile
    /\ last.args.filename = PyStr(<<"run", ".py">>)
    /\ ReturnedPlainRead
    /\ last.ret.content_markdown = <<10, 66>>

----------------------------------------------------------------------------
(* Claims about the detail fetcher's handling of gateway errors (checked   *)
(* under SpecDetail).                                                      *)

\* get_subsidy_detail passed validation and the gateway reported an error
DetailGotGatewayError ==
    /\ last.op = "get_subsidy_detail"
    /\ last.args.subsidy_id.ty = "str"
    /\ Strip(last.args.subsidy_id.s) # <<>>
    /\ detailResp.kind # "ok"

Upstream404 == detailResp.kind = "status" /\ detailResp.code = 404

\* the error text the gateway gives for each kind of failure
GatewayErrorText ==
    CASE detailResp.kind = "timeout" -> MsgTimeout
      [] detailResp.kind = "connect" -> MsgConnect
      [] detailResp.kind = "status" -> <<"HTTP error: ">> \o StrOfInt(detailResp.code)
      [] OTHER -> MsgOther

\* C11: on an upstream HTTP 404 get_subsidy_detail returns the "not found"
\* error that holds the requested identifier; every other gateway error
\* (timeout, connection failure, another status code, another exception) is
\* returned as the gateway gave it.
C11_NotFoundOn404OthersUnchanged ==
    DetailGotGatewayError =>
        /\ last.ret.tag = "data"
        /\ last.ret.data.hasError
        /\ Upstream404 =>
              last.ret.data.error
                  = PyStr(<<"subsidy id '">> \o last.args.subsidy_id.s
                          \o <<"' was not found">>)
        /\ ~Upstream404 => last.ret.data.error = PyStr(GatewayErrorText)

\* the upstream answered 404 and the error names the identifier "A"
C11_Witness ==
    /\ DetailGotGatewayError
    /\ Upstream404
    /\ last.args.subsidy_id = IdA
    /\ last.ret = Data(ErrBody(<<"subsidy id '", "A", "' was not found">>))

----------------------------------------------------------------------------
(* The sanitization rule on its own: a file name is sanitized, and the     *)
(* result is sanitized again.                                              *)

\* longest file name
MaxNameLen == 3

NameChars == {"a", " ", "/", "_", "."}

FileNames == UNION {[1..n -> NameChars] : n \in 0..MaxNameLen}

InitSanitize ==
    /\ now = 0
    /\ searchResp = FailOutcome("connect", 0)
    /\ detailResp = NoDetail
    /\ converters = NoConverters
    /\ files = NoFiles
    /\ dirs = {<<>>, FILES_DIR, <<DotDot>>, <<RootName>>}
    /\ netCalls = 0
    /\ debug_files = FALSE
    /\ NoGatewayUse
    /\ \E file_name \in FileNames, c \in DOMAIN Categories, idx \in 0..(MaxItems - 1) :
          last = [op |-> "sanitize",
                  args |-> [file_name |-> file_name,
                            base_name |-> file_type_names(Categories[c]),
                            idx |-> idx],
                  ret |-> [tag |-> "name", times |-> 0, name |-> file_name,
                           before |-> file_name]]

\* lines 572-580 once more, on the name they gave the time before
Sanitize ==
    /\ last.ret.times < 2
    /\ last' = [last EXCEPT
                  !.ret = [tag |-> "name", times |-> last.ret.times + 1,
                           name |-> SafeFileName(last.ret.name, last.args.base_name,
                                                 last.args.idx),
                           before |-> last.ret.name]]
    /\ UNCHANGED <<now, searchResp, detailResp, converters, files, dirs, netCalls,
                   debug_files, _HTTP_CLIENT, clients_made, co>>

NextSanitize == Sanitize

SpecSanitize == InitSanitize /\ [][NextSanitize]_vars

\* C12: sanitizing a sanitized file name (same category label, same item
\* index) gives that same name again.
C12_SanitizationIdempotent ==
    last.ret.times = 2 => last.ret.name = last.ret.before

\* a name of a slash alone went to the fallback name, and the fallback name
\* was sanitized again
C12_Witness ==
    /\ last.ret.times = 2
    /\ last.args.file_name = <<"/">>
    /\ last.args.idx = 1
    /\ last.ret.name = <<"guidelines", "_", "2", ".pdf">>

----------------------------------------------------------------------------
(* The attachment persister under both settings of the debug log.          *)

InitPersist ==
    /\ now = 0
    /\ searchResp = FailOutcome("connect", 0)
    /\ detailResp \in AttachmentOutcomes
    /\ converters = NoConverters
    /\ files = NoFiles
    /\ dirs = {<<>>, FILES_DIR, <<DotDot>>, <<RootName>>}
    /\ netCalls = 0
    /\ debug_files \in BOOLEAN
    /\ NoGatewayUse
    /\ last = [op |-> "none", args |-> [none |-> TRUE], ret |-> [tag |-> "none"]]

NextPersist == DetailCall

SpecPersist == InitPersist /\ [][NextPersist]_vars

\* get_subsidy_detail was called with an identifier that passes validation
DetailAsked ==
    /\ last.op = "get_subsidy_detail"
    /\ last.args.subsidy_id.ty = "str"
    /\ Strip(last.args.subsidy_id.s) # <<>>

NonEmptyPayload(item) == item.isDict /\ Truthy(item.data)

\* the positions of the items of category c that have a non-empty payload
KeptPositions(c) ==
    SelectSeq([i \in 1..Len(SentList(c)) |-> i],
              LAMBDA i : NonEmptyPayload(SentList(c)[i]))

\* the entries of category c in the result; a category with an empty input
\* list has no key in the result
OutList(c) == IF c \in DOMAIN last.ret.files THEN last.ret.files[c] ELSE <<>>

\* entry e is the one entry of item i of category c
EntryOf(e, c, i) ==
    LET item == SentList(c)[i]
    IN  /\ e.original_name = DisplayName(item, i, c)
        /\ e.ok <=> ValidPayload(item) /\ PlainName(item, i, c)
        /\ e.ok => /\ e.name = StoredName(item, i, c)
                   /\ e.size = Len(PayloadBytes(item))
        /\ ~e.ok => e.name = DisplayName(item, i, c) /\ e.error # <<>>

\* C13: for each category the output list is the input list restricted to
\* the items with a non-empty payload, in input order, one entry per item:
\* a success when the payload decodes to at least one byte and the write
\* works, otherwise a failure with the original name and a reason; no
\* failure of an item keeps later items or the other categories from being
\* processed, and an empty payload has no entry.
C13_OneEntryPerNonEmptyPayload ==
    DetailAsked =>
        /\ last.ret.tag = "detail"
        /\ \A c \in CategorySet :
              /\ Len(OutList(c)) = Len(KeptPositions(c))
              /\ \A k \in 1..Len(KeptPositions(c)) :
                    EntryOf(OutList(c)[k], c, KeptPositions(c)[k])

----------------------------------------------------------------------------
(* The gateway under concurrent callers: coroutines of one event loop, each *)
(* suspended only at the await of line 54.                                  *)

GatewayOutcomes ==
    Failures \cup {OkOutcome(JBody("dict", FALSE, PyNone, FALSE, JOther("null", 0)))}

\* lines 53-54 up to the await: the coroutine takes the shared client and
\* sends its request
EnterGetJson(c) ==
    /\ co[c].pc # "awaiting"
    /\ netCalls < MaxCalls
    /\ _HTTP_CLIENT' = _get_http_client.client
    /\ clients_made' = _get_http_client.made
    /\ netCalls' = netCalls + 1
    /\ co' = [co EXCEPT ![c] = [pc |-> "awaiting",
                                client |-> _get_http_client.client,
                                ret |-> PyNone]]
    /\ UNCHANGED <<now, searchResp, detailResp, converters, files, dirs, debug_files,
                   last>>

\* lines 54-65 after the await: the answer, or the exception, has come
ResumeGetJson(c, outcome) ==
    /\ co[c].pc = "awaiting"
    /\ co' = [co EXCEPT ![c] = [pc |-> "returned", client |-> co[c].client,
                                ret |-> GetJson(outcome)]]
    /\ UNCHANGED <<now, searchResp, detailResp, converters, files, dirs, netCalls,
                   debug_files, _HTTP_CLIENT, clients_made, last>>

InitGateway ==
    /\ now = 0
    /\ searchResp = FailOutcome("connect", 0)
    /\ detailResp = NoDetail
    /\ converters = NoConverters
    /\ files = NoFiles
    /\ dirs = {<<>>, FILES_DIR, <<DotDot>>, <<RootName>>}
    /\ netCalls = 0
    /\ debug_files = FALSE
    /\ NoGatewayUse
    /\ last = [op |-> "none", args |-> [none |-> TRUE], ret |-> [tag |-> "none"]]

Enter == \E c \in Coroutines : EnterGetJson(c)

Resume == \E c \in Coroutines, outcome \in GatewayOutcomes : ResumeGetJson(c, outcome)

NextGateway == Enter \/ Resume

SpecGateway == InitGateway /\ [][NextGateway]_vars

\* C14: under every interleaving of gateway calls the shared client is
\* constructed at most once: the first call makes it, every later or
\* concurrent call holds that same instance, and it is never replaced or
\* reset.
C14_SharedClientConstructedOnce ==
    /\ clients_made <= 1
    /\ clients_made = 0 => _HTTP_CLIENT = 0 /\ netCalls = 0
    /\ clients_made = 1 => _HTTP_CLIENT = 1
    /\ netCalls > 0 => clients_made = 1
    /\ \A c \in Coroutines : co[c].pc # "idle" => co[c].client = 1

\* two coroutines wait for their answers at the same time, both on the one
\* client
C14_Witness ==
    /\ clients_made = 1
    /\ \E c1, c2 \in Coroutines :
          /\ c1 # c2
          /\ co[c1].pc = "awaiting" /\ co[c1].client = _HTTP_CLIENT
          /\ co[c2].pc = "awaiting" /\ co[c2].client = _HTTP_CLIENT

----------------------------------------------------------------------------
(* Claims about the stored files (checked under SpecPersist).              *)

\* the file of a success entry, as it is in the record's directory when the
\* call has returned
StoredFile(e) ==
    ReadFile(Append(last.ret.save_directory, e.name), files, dirs)

\* C15: when get_subsidy_detail returns, the file of every success entry
\* holds exactly the bytes decoded for that entry and has the reported
\* size; no later item of the call has changed it.
C15_ReportedSuccessIsFinal ==
    DetailReturned =>
        \A c \in CategorySet :
            \A k \in 1..Len(OutList(c)) :
                OutList(c)[k].ok /\ k <= Len(KeptPositions(c)) =>
                    /\ StoredFile(OutList(c)[k]).ok
                    /\ StoredFile(OutList(c)[k]).bytes
                          = PayloadBytes(SentList(c)[KeptPositions(c)[k]])
                    /\ Len(StoredFile(OutList(c)[k]).bytes) = OutList(c)[k].size

----------------------------------------------------------------------------
(* Identifiers and file names that hold path separators and ".." segments. *)

IdB == PyStr(<<"B">>)

\* "../x" and ".."
IdParentX == PyStr(<<".", ".", "/", "x">>)
IdParent == PyStr(<<".", ".">>)

AccessDetailIds == {IdA, IdB, IdParentX}

AccessContentIds == {IdA, IdB, IdParent}

\* "a_b.pdf", "../B/a_b.pdf", "../A/a_b.pdf", "tmp/A/a_b.pdf", "/a_b.pdf"
AccessNames ==
    {ReportPdfSafe,
     PyStr(<<".", ".", "/", "B", "/">> \o ReportPdfSafe.s),
     PyStr(<<".", ".", "/", "A", "/">> \o ReportPdfSafe.s),
     PyStr(<<"tmp", "/", "A", "/">> \o ReportPdfSafe.s),
     PyStr(<<"/">> \o ReportPdfSafe.s)}

AccessOutcomes ==
    {OkOutcome(DetailBody("dict", Subsidy(FALSE, EndField("z", 0),
        FilesData(<<Item(ReportPdf, Valid1)>>, <<>>, <<>>))))}

InitAccess ==
    /\ now = 0
    /\ searchResp = FailOutcome("connect", 0)
    /\ detailResp \in AccessOutcomes
    /\ converters = NoConverters
    /\ InitStore

AccessDetailCall == \E id \in AccessDetailIds : get_subsidy_detail(id)

AccessContentCall ==
    \E id \in AccessContentIds, f \in AccessNames : get_file_content(id, f, Base64)

NextAccess == AccessDetailCall \/ AccessContentCall

SpecAccess == InitAccess /\ [][NextAccess]_vars

\* path p lies below directory d
Inside(p, d) == Len(p) > Len(d) /\ SubSeq(p, 1, Len(d)) = d

\* the directories there were before any call
OldDirs == {<<>>, FILES_DIR, <<DotDot>>, <<RootName>>}

\* get_file_content has returned the content of a file
ContentRead ==
    /\ last.op = "get_file_content"
    /\ last.ret.tag \in {"base64", "markdown"}

\* the file that get_file_content opened
OpenedFile ==
    Resolve(PathJoin(PathJoin(FILES_DIR, last.args.subsidy_id.s),
                     last.args.filename.s), dirs).p

\* C16: every file access stays inside the record's directory: for all
\* identifiers and file names, also with path separators or ".." segments,
\* get_file_content reads only a file inside the storage root's
\* subdirectory of that identifier, and get_subsidy_detail creates its
\* directory and writes its files only inside the storage root.
C16_AccessStaysInsideRecordDirectory ==
    /\ ContentRead => Inside(OpenedFile, Append(FILES_DIR, last.args.subsidy_id.s))
    /\ \A d \in dirs \ OldDirs : Inside(d, FILES_DIR)
    /\ \A p \in DOMAIN files : Inside(p, FILES_DIR)

====
